---- MODULE Spec2Model ----
(***************************************************************************)
(* Model of piper_boot_init.cpp: PiperInitializer::run() and its six step  *)
(* functions, executed by one thread, with signal_handler() setting        *)
(* g_shutdown_requested asynchronously.                                    *)
(*                                                                         *)
(* Each action is one stretch of run() between two points where the        *)
(* device is called, the thread sleeps or the flag is read; pc is the      *)
(* position of the thread.  The device (piper_sdk) is external: every      *)
(* call returns a nondeterministically chosen answer.                      *)
(*                                                                         *)
(* Time is counted in ticks.  steady_clock is read only where a deadline   *)
(* is computed and where a deadline loop tests it, and its epoch is        *)
(* arbitrary, so the clock is re-based to 0 whenever a deadline is         *)
(* computed and the fixed sleeps outside the deadline loops (200ms, 100ms, *)
(* 500ms, 10ms, 1000ms) are positions of pc that leave the clock alone.    *)
(*                                                                         *)
(* A local variable of a step function is dead once the function has       *)
(* returned (arm_status of waitHomingDone: once the loop body has ended).  *)
(* While run() goes on, the next action that starts a function or an       *)
(* iteration puts the dead locals back to their initial values, so that    *)
(* states differing only in dead values are one state; when run() has      *)
(* returned they keep their last values.                                   *)
(***************************************************************************)
EXTENDS Integers, Sequences, FiniteSets

\* ---- bounds of the model ----
MaxTimeout == 2        \* connect/enable/home timeouts range over 0..MaxTimeout ticks
MaxHomeRetry == 2      \* home_retry_count ranges over 0..MaxHomeRetry
MaxJitter == 1         \* sleep_for may oversleep by 0..MaxJitter ticks

\* ---- program constants ----
\* the unit of time: one tick is one status_poll_interval
StatusPollInterval == 1
MAX_RETRIES == 200
kPositionTolerance == 1000
NumJoints == 6
TargetJoints == <<-90000, 0, 0, 0, 0, 0>>

ErrorCodes == {0, 3}

InitErrors ==
    {"OK", "CAN_OPEN_FAILED", "CONNECT_FAILED", "ENABLE_FAILED", "ENABLE_TIMEOUT",
     "HOME_FAILED", "HOME_TIMEOUT", "SIGNAL_INTERRUPTED", "STATUS_CHECK_FAILED", "ARM_ERROR"}

\* PiperInitializer::Config, as far as run() reads it
Configs ==
    [connect_timeout : 0..MaxTimeout,
     enable_timeout : 0..MaxTimeout,
     home_timeout : 0..MaxTimeout,
     status_poll_interval : {StatusPollInterval},
     home_retry_count : 0..MaxHomeRetry,
     target_joints : {TargetJoints}]

\* the six steps of run(), in the order of the calls
Steps == 1..6
StepEntry == <<"create", "connect", "wfc_enter", "check", "enable", "home_for">>

\* ---- the device's answers ----
\* get_arm_status(): an optional ArmStatus
NoStatus == [present |-> FALSE, error_code |-> 0, position |-> <<>>]

Offsets ==
    {0 - (kPositionTolerance + 1), 0 - kPositionTolerance, 0,
     kPositionTolerance, kPositionTolerance + 1}

\* position vectors the device may report: one joint off by an offset, the
\* others on target or at the edge of the tolerance; and two short vectors
PositionChoices ==
    {[i \in 1..NumJoints |-> TargetJoints[i] + (IF i = j THEN a ELSE b)] :
        j \in 1..NumJoints, a \in Offsets, b \in {0, kPositionTolerance}}
    \cup {<<>>, SubSeq(TargetJoints, 1, NumJoints - 1)}

\* what checkArmStatus can read: the position is not looked at there
CheckStatuses ==
    {NoStatus} \cup
    {[present |-> TRUE, error_code |-> e, position |-> TargetJoints] : e \in ErrorCodes}

\* what waitHomingDone can read
HomeStatuses ==
    {NoStatus} \cup
    {[present |-> TRUE, error_code |-> e, position |-> TargetJoints] : e \in ErrorCodes \ {0}} \cup
    {[present |-> TRUE, error_code |-> 0, position |-> p] : p \in PositionChoices}

ConnectStatuses == [connected : BOOLEAN, stale : BOOLEAN]

VARIABLES
    pc,                   \* position of the thread in run()
    result,               \* what run() returned, "none" until it returns
    g_shutdown_requested, \* the atomic flag
    config,               \* config_
    now,                  \* steady_clock, in ticks since the last deadline computation
    deadline,             \* the local deadline of the loop in progress
    retry_count,          \* enableMotors' retry_count
    retry,                \* performHoming's loop variable
    wait_result,          \* performHoming's wait_result, "none" before the first wait
    first_status,         \* checkArmStatus: arm_status as first read
    refetch_status,       \* checkArmStatus: arm_status as read after the reset
    home_status,          \* waitHomingDone: arm_status as last read
    issued,               \* history: the device calls made, each with its step
    nReset,               \* history: number of reset_arm calls
    nModeSet,             \* history: number of motion_control_2 calls
    nMove,                \* history: number of move_joint calls
    stepResult,           \* history: what each step returned, "none" if it has not
    sigAt,                \* history: where the thread was when the flag was first set
    linkUpSeen,           \* history: some get_connect_status was connected and not stale
    enableConfirmed,      \* history: some enable_piper returned true
    armErrSeen,           \* history: some status read by waitHomingDone had error_code # 0
    fw_version,           \* waitForConnection: fw_version, "unread" | "absent" | "present"
    enable_ack,           \* enableMotors: result.ok of enable_arm, "unsent" | "ok" | "failed"
    sigRepeated,          \* history: a signal was delivered when the flag was already set
    deviceIdeal           \* history: the interface was created and every device call so
                          \* far was answered at once and favourably

vars ==
    <<pc, result, g_shutdown_requested, config, now, deadline, retry_count, retry,
      wait_result, first_status, refetch_status, home_status, issued, nReset,
      nModeSet, nMove, stepResult, sigAt, linkUpSeen, enableConfirmed, armErrSeen,
      fw_version, enable_ack, sigRepeated, deviceIdeal>>

ctrl == <<pc, result, stepResult>>
clock == <<now, deadline>>
checkVars == <<first_status, refetch_status, nReset>>
enableVars == <<retry_count, enableConfirmed>>
homeVars == <<retry, wait_result, home_status, nModeSet, nMove, armErrSeen>>

Init ==
    /\ pc = "create"
    /\ result = "none"
    /\ g_shutdown_requested = FALSE
    /\ config \in Configs
    /\ now = 0
    /\ deadline = 0
    /\ retry_count = 0
    /\ retry = 0
    /\ wait_result = "none"
    /\ first_status = NoStatus
    /\ refetch_status = NoStatus
    /\ home_status = NoStatus
    /\ issued = {}
    /\ nReset = 0
    /\ nModeSet = 0
    /\ nMove = 0
    /\ stepResult = [k \in Steps |-> "none"]
    /\ sigAt = "none"
    /\ linkUpSeen = FALSE
    /\ enableConfirmed = FALSE
    /\ armErrSeen = FALSE
    /\ fw_version = "unread"
    /\ enable_ack = "unsent"
    /\ sigRepeated = FALSE
    /\ deviceIdeal = TRUE

\* ---- pure helpers ----
\* enum class InitError : int, and main(): static_cast<int>(result)
ExitCode(err) ==
    CASE err = "OK" -> 0
      [] err = "CAN_OPEN_FAILED" -> 1
      [] err = "CONNECT_FAILED" -> 2
      [] err = "ENABLE_FAILED" -> 3
      [] err = "ENABLE_TIMEOUT" -> 4
      [] err = "HOME_FAILED" -> 5
      [] err = "HOME_TIMEOUT" -> 6
      [] err = "SIGNAL_INTERRUPTED" -> 7
      [] err = "STATUS_CHECK_FAILED" -> 8
      [] err = "ARM_ERROR" -> 9

Abs(x) == IF x < 0 THEN 0 - x ELSE x

\* run(): `if (err != InitError::OK) return err;`
RunContinuesSkipArmError(err) == err \in {"OK", "ARM_ERROR"}

RunContinues(err) == err = "OK"

\* `while (std::chrono::steady_clock::now() < deadline)`
DeadlineOpenInclusive(n, d) == n <= d

DeadlineOpen(n, d) == n < d

\* waitForConnection: `status.connected && !status.stale`
LinkUpIgnoringStale(status) == status.connected

LinkUp(status) == status.connected /\ ~status.stale

\* checkArmStatus: `arm_status && arm_status->error_code != 0` after the reset
ResetFailedNever(st) == FALSE

ResetFailed(st) == st.present /\ st.error_code # 0

\* waitHomingDone: the for loop over the joints, with its break
RECURSIVE ScanJoints(_, _, _)
ScanJoints(position, target, i) ==
    IF i > Len(position) \/ i > Len(target) THEN TRUE
    ELSE IF Abs(position[i] - target[i]) > kPositionTolerance THEN FALSE
    ELSE ScanJoints(position, target, i + 1)

RECURSIVE ScanJointsStrict(_, _, _)
ScanJointsStrict(position, target, i) ==
    IF i > Len(position) \/ i > Len(target) THEN TRUE
    ELSE IF Abs(position[i] - target[i]) >= kPositionTolerance THEN FALSE
    ELSE ScanJointsStrict(position, target, i + 1)

AllAtTargetStrict(position, target) == ScanJointsStrict(position, target, 1)

AllAtTarget(position, target) == ScanJoints(position, target, 1)

\* ---- run(): a step function returned err ----
Return(k, err) ==
    /\ stepResult' = [stepResult EXCEPT ![k] = err]
    /\ IF RunContinues(err)
       THEN IF k = 6
            THEN pc' = "done" /\ result' = "OK"
            ELSE pc' = StepEntry[k + 1] /\ UNCHANGED result
       ELSE pc' = "done" /\ result' = err

Call(k, name) == issued' = issued \cup {<<k, name>>}

\* ---- signal_handler ----
SignalHandlerToggles ==
    /\ pc # "done"
    /\ pc # "aborted"
    /\ sigRepeated' = (sigRepeated \/ g_shutdown_requested)
    /\ g_shutdown_requested' = ~g_shutdown_requested
    /\ sigAt' = IF g_shutdown_requested THEN sigAt ELSE pc
    /\ UNCHANGED <<ctrl, config, clock, checkVars, enableVars, homeVars, issued, linkUpSeen>>
    /\ UNCHANGED <<fw_version, enable_ack, deviceIdeal>>

SignalHandler ==
    /\ pc # "done"
    /\ pc # "aborted"
    /\ sigRepeated' = (sigRepeated \/ g_shutdown_requested)
    /\ g_shutdown_requested' = TRUE
    /\ sigAt' = IF g_shutdown_requested THEN sigAt ELSE pc
    /\ UNCHANGED <<ctrl, config, clock, checkVars, enableVars, homeVars, issued, linkUpSeen>>
    /\ UNCHANGED <<fw_version, enable_ack, deviceIdeal>>

\* ---- step 1: createInterface ----
CreateInterface ==
    /\ pc = "create"
    /\ \E thrown \in BOOLEAN :
         /\ deviceIdeal' = (deviceIdeal /\ ~thrown)
         /\ Return(1, IF thrown THEN "CAN_OPEN_FAILED" ELSE "OK")
    /\ UNCHANGED <<g_shutdown_requested, config, clock, checkVars, enableVars, homeVars,
                   issued, sigAt, linkUpSeen>>
    /\ UNCHANGED <<fw_version, enable_ack, sigRepeated>>

\* ---- step 2: connectPort ----
ConnectPort ==
    /\ pc = "connect"
    /\ Call(2, "connect_port")
    /\ \E ok \in BOOLEAN :
         /\ deviceIdeal' = (deviceIdeal /\ ok)
         /\ Return(2, IF ok THEN "OK" ELSE "CONNECT_FAILED")
    /\ UNCHANGED <<g_shutdown_requested, config, clock, checkVars, enableVars, homeVars,
                   sigAt, linkUpSeen>>
    /\ UNCHANGED <<fw_version, enable_ack, sigRepeated>>

\* ---- step 3: waitForConnection ----
WfcEnter ==
    /\ pc = "wfc_enter"
    /\ now' = 0
    /\ deadline' = config.connect_timeout
    /\ pc' = "wfc_head"
    /\ UNCHANGED <<result, stepResult, g_shutdown_requested, config, checkVars, enableVars,
                   homeVars, issued, sigAt, linkUpSeen>>
    /\ UNCHANGED <<fw_version, enable_ack, sigRepeated, deviceIdeal>>

WfcHead ==
    /\ pc = "wfc_head"
    /\ IF DeadlineOpen(now, deadline)
       THEN IF g_shutdown_requested
            THEN Return(3, "SIGNAL_INTERRUPTED")
            ELSE pc' = "wfc_poll" /\ UNCHANGED <<result, stepResult>>
       ELSE Return(3, "CONNECT_FAILED")
    /\ UNCHANGED <<g_shutdown_requested, config, clock, checkVars, enableVars, homeVars,
                   issued, sigAt, linkUpSeen>>
    /\ UNCHANGED <<fw_version, enable_ack, sigRepeated, deviceIdeal>>

WfcPoll ==
    /\ pc = "wfc_poll"
    /\ \E status \in ConnectStatuses :
         /\ linkUpSeen' = (linkUpSeen \/ (status.connected /\ ~status.stale))
         /\ deviceIdeal' = (deviceIdeal /\ status.connected /\ ~status.stale)
         /\ IF LinkUp(status)
            THEN /\ issued' = issued \cup {<<3, "get_connect_status">>,
                                           <<3, "get_piper_firmware_version">>,
                                           <<3, "get_cached_firmware_version">>}
                 /\ fw_version' \in {"absent", "present"}
                 /\ Return(3, "OK")
            ELSE /\ Call(3, "get_connect_status")
                 /\ pc' = "wfc_sleep"
                 /\ UNCHANGED <<result, stepResult, fw_version>>
    /\ UNCHANGED <<g_shutdown_requested, config, clock, checkVars, enableVars, homeVars, sigAt>>
    /\ UNCHANGED <<enable_ack, sigRepeated>>

WfcSleep ==
    /\ pc = "wfc_sleep"
    /\ \E j \in 0..MaxJitter : now' = now + config.status_poll_interval + j
    /\ pc' = "wfc_head"
    /\ UNCHANGED <<result, stepResult, g_shutdown_requested, config, deadline, checkVars,
                   enableVars, homeVars, issued, sigAt, linkUpSeen>>
    /\ UNCHANGED <<fw_version, enable_ack, sigRepeated, deviceIdeal>>

\* ---- step 4: checkArmStatus ----
\* lines 262-268: what the first read leads to, an outcome to return or
\* "reset" for the reset-and-re-fetch path
FirstReadFailsOnMissing(st) ==
    IF ~st.present THEN "STATUS_CHECK_FAILED"
    ELSE IF st.error_code # 0 THEN "reset" ELSE "OK"

FirstRead(st) ==
    IF ~st.present THEN "OK"
    ELSE IF st.error_code # 0 THEN "reset" ELSE "OK"

CheckArmStatus ==
    /\ pc = "check"
    /\ Call(4, "get_arm_status")
    /\ \E st \in CheckStatuses :
         /\ first_status' = st
         /\ deviceIdeal' = (deviceIdeal /\ st.present /\ st.error_code = 0)
         /\ IF FirstRead(st) = "reset"
            THEN pc' = "check_reset" /\ UNCHANGED <<result, stepResult>>
            ELSE Return(4, FirstRead(st))
    /\ now' = 0
    /\ deadline' = 0
    /\ UNCHANGED <<g_shutdown_requested, config, refetch_status, nReset, enableVars,
                   homeVars, sigAt, linkUpSeen>>
    /\ UNCHANGED <<fw_version, enable_ack, sigRepeated>>

\* reset_arm(); sleep_for(500ms)
CheckReset ==
    /\ pc = "check_reset"
    /\ Call(4, "reset_arm")
    /\ nReset' = nReset + 1
    /\ pc' = "check_refetch"
    /\ UNCHANGED <<result, stepResult, g_shutdown_requested, config, clock, first_status,
                   refetch_status, enableVars, homeVars, sigAt, linkUpSeen>>
    /\ UNCHANGED <<fw_version, enable_ack, sigRepeated, deviceIdeal>>

\* the re-fetch; line 284 then dereferences arm_status, which is undefined
\* behaviour when the re-fetch returned no value: the build either reads
\* whatever the empty object holds and goes on, or the process dies
CheckRefetch ==
    /\ pc = "check_refetch"
    /\ \E st \in CheckStatuses :
         /\ refetch_status' = st
         /\ IF ResetFailed(st)
            THEN Return(4, "ARM_ERROR")
            ELSE IF st.present
                 THEN Return(4, "OK")
                 ELSE \/ Return(4, "OK")
                      \/ pc' = "aborted" /\ UNCHANGED <<result, stepResult>>
    /\ UNCHANGED <<g_shutdown_requested, config, clock, first_status, nReset, enableVars,
                   homeVars, issued, sigAt, linkUpSeen>>
    /\ UNCHANGED <<fw_version, enable_ack, sigRepeated, deviceIdeal>>

\* ---- step 5: enableMotors ----
\* enable_arm(7): the result is only logged
EnableMotors ==
    /\ pc = "enable"
    /\ Call(5, "enable_arm")
    /\ enable_ack' \in {"ok", "failed"}
    /\ retry_count' = 0
    /\ first_status' = NoStatus
    /\ refetch_status' = NoStatus
    /\ pc' = "en_fast_head"
    /\ UNCHANGED <<result, stepResult, g_shutdown_requested, config, clock, nReset,
                   enableConfirmed, homeVars, sigAt, linkUpSeen>>
    /\ fw_version' = "unread"
    /\ UNCHANGED <<sigRepeated, deviceIdeal>>

\* `while (!piper_->enable_piper() && retry_count < MAX_RETRIES)`, then the
\* flag test of the body, or `if (retry_count >= MAX_RETRIES)` after the loop
EnFastHead ==
    /\ pc = "en_fast_head"
    /\ Call(5, "enable_piper")
    /\ enable_ack' = "unsent"
    /\ \E confirmed \in BOOLEAN :
         /\ enableConfirmed' = (enableConfirmed \/ confirmed)
         /\ deviceIdeal' = (deviceIdeal /\ confirmed)
         /\ IF ~confirmed /\ retry_count < MAX_RETRIES
            THEN IF g_shutdown_requested
                 THEN Return(5, "SIGNAL_INTERRUPTED")
                 ELSE pc' = "en_fast_sleep" /\ UNCHANGED <<result, stepResult>>
            ELSE IF retry_count >= MAX_RETRIES
                 THEN pc' = "en_long_enter" /\ UNCHANGED <<result, stepResult>>
                 ELSE Return(5, "OK")
    /\ UNCHANGED <<g_shutdown_requested, config, clock, checkVars, retry_count, homeVars,
                   sigAt, linkUpSeen>>
    /\ UNCHANGED <<fw_version, sigRepeated>>

\* sleep_for(10ms); retry_count++
EnFastSleep ==
    /\ pc = "en_fast_sleep"
    /\ retry_count' = retry_count + 1
    /\ pc' = "en_fast_head"
    /\ UNCHANGED <<result, stepResult, g_shutdown_requested, config, clock, checkVars,
                   enableConfirmed, homeVars, issued, sigAt, linkUpSeen>>
    /\ UNCHANGED <<fw_version, enable_ack, sigRepeated, deviceIdeal>>

EnLongEnter ==
    /\ pc = "en_long_enter"
    /\ now' = 0
    /\ deadline' = config.enable_timeout
    /\ pc' = "en_long_head"
    /\ UNCHANGED <<result, stepResult, g_shutdown_requested, config, checkVars, enableVars,
                   homeVars, issued, sigAt, linkUpSeen>>
    /\ UNCHANGED <<fw_version, enable_ack, sigRepeated, deviceIdeal>>

EnLongHead ==
    /\ pc = "en_long_head"
    /\ IF DeadlineOpen(now, deadline)
       THEN IF g_shutdown_requested
            THEN Return(5, "SIGNAL_INTERRUPTED")
            ELSE pc' = "en_long_poll" /\ UNCHANGED <<result, stepResult>>
       ELSE Return(5, "ENABLE_TIMEOUT")
    /\ UNCHANGED <<g_shutdown_requested, config, clock, checkVars, enableVars, homeVars,
                   issued, sigAt, linkUpSeen>>
    /\ UNCHANGED <<fw_version, enable_ack, sigRepeated, deviceIdeal>>

EnLongPoll ==
    /\ pc = "en_long_poll"
    /\ Call(5, "enable_piper")
    /\ \E confirmed \in BOOLEAN :
         /\ enableConfirmed' = (enableConfirmed \/ confirmed)
         /\ IF confirmed
            THEN Return(5, "OK")
            ELSE pc' = "en_long_sleep" /\ UNCHANGED <<result, stepResult>>
    /\ UNCHANGED <<g_shutdown_requested, config, clock, checkVars, retry_count, homeVars,
                   sigAt, linkUpSeen>>
    /\ UNCHANGED <<fw_version, enable_ack, sigRepeated, deviceIdeal>>

EnLongSleep ==
    /\ pc = "en_long_sleep"
    /\ \E j \in 0..MaxJitter : now' = now + config.status_poll_interval + j
    /\ pc' = "en_long_head"
    /\ UNCHANGED <<result, stepResult, g_shutdown_requested, config, deadline, checkVars,
                   enableVars, homeVars, issued, sigAt, linkUpSeen>>
    /\ UNCHANGED <<fw_version, enable_ack, sigRepeated, deviceIdeal>>

\* ---- step 6: performHoming ----
\* `for (...; retry < config_.home_retry_count; ...)`
AttemptsLeft(r, cfg) == r < cfg.home_retry_count

\* `if (retry > 0)`: the backoff before a retry
NeedsBackoffAlways(r) == r >= 0

NeedsBackoff(r) == r > 0

\* the loop test, the flag test and `if (retry > 0)`
HomeFor ==
    /\ pc = "home_for"
    /\ IF AttemptsLeft(retry, config)
       THEN IF g_shutdown_requested
            THEN Return(6, "SIGNAL_INTERRUPTED")
            ELSE /\ pc' = IF NeedsBackoff(retry) THEN "home_backoff" ELSE "home_mode"
                 /\ UNCHANGED <<result, stepResult>>
       ELSE Return(6, "HOME_FAILED")
    /\ IF AttemptsLeft(retry, config) /\ ~g_shutdown_requested
       THEN /\ now' = 0
            /\ deadline' = 0
            /\ retry_count' = 0
            /\ wait_result' = "none"
            /\ home_status' = NoStatus
       ELSE UNCHANGED <<now, deadline, retry_count, wait_result, home_status>>
    /\ UNCHANGED <<g_shutdown_requested, config, checkVars, enableConfirmed, retry, nModeSet,
                   nMove, armErrSeen, issued, sigAt, linkUpSeen>>
    /\ UNCHANGED <<fw_version, enable_ack, sigRepeated, deviceIdeal>>

\* sleep_for(1000ms) before a retry
HomeBackoff ==
    /\ pc = "home_backoff"
    /\ pc' = "home_mode"
    /\ UNCHANGED <<result, stepResult, g_shutdown_requested, config, clock, checkVars,
                   enableVars, homeVars, issued, sigAt, linkUpSeen>>
    /\ UNCHANGED <<fw_version, enable_ack, sigRepeated, deviceIdeal>>

\* motion_control_2(...); on failure `continue`, which runs retry++
HomeMode ==
    /\ pc = "home_mode"
    /\ Call(6, "motion_control_2")
    /\ nModeSet' = nModeSet + 1
    /\ \E ok \in BOOLEAN :
         /\ deviceIdeal' = (deviceIdeal /\ ok)
         /\ IF ok
            THEN pc' = "home_settle" /\ UNCHANGED retry
            ELSE pc' = "home_for" /\ retry' = retry + 1
    /\ UNCHANGED <<result, stepResult, g_shutdown_requested, config, clock, checkVars,
                   enableVars, wait_result, home_status, nMove, armErrSeen, sigAt, linkUpSeen>>
    /\ UNCHANGED <<fw_version, enable_ack, sigRepeated>>

\* sleep_for(100ms) between the mode-set and the move
HomeSettle ==
    /\ pc = "home_settle"
    /\ pc' = "home_move"
    /\ UNCHANGED <<result, stepResult, g_shutdown_requested, config, clock, checkVars,
                   enableVars, homeVars, issued, sigAt, linkUpSeen>>
    /\ UNCHANGED <<fw_version, enable_ack, sigRepeated, deviceIdeal>>

\* move_joint(target_joints); on failure `continue`
HomeMove ==
    /\ pc = "home_move"
    /\ Call(6, "move_joint")
    /\ nMove' = nMove + 1
    /\ \E ok \in BOOLEAN :
         /\ deviceIdeal' = (deviceIdeal /\ ok)
         /\ IF ok
            THEN pc' = "whd_enter" /\ UNCHANGED retry
            ELSE pc' = "home_for" /\ retry' = retry + 1
    /\ UNCHANGED <<result, stepResult, g_shutdown_requested, config, clock, checkVars,
                   enableVars, wait_result, home_status, nModeSet, armErrSeen, sigAt, linkUpSeen>>
    /\ UNCHANGED <<fw_version, enable_ack, sigRepeated>>

\* performHoming, lines 378-387: waitHomingDone returned w
AfterWaitRetriesOnOk(w) ==
    /\ wait_result' = w
    /\ IF w = "SIGNAL_INTERRUPTED"
       THEN Return(6, w) /\ UNCHANGED retry
       ELSE pc' = "home_for" /\ retry' = retry + 1 /\ UNCHANGED <<result, stepResult>>

AfterWaitReturnsFailure(w) ==
    /\ wait_result' = w
    /\ Return(6, w)
    /\ UNCHANGED retry

AfterWait(w) ==
    /\ wait_result' = w
    /\ IF w = "OK"
       THEN Return(6, "OK") /\ UNCHANGED retry
       ELSE IF w = "SIGNAL_INTERRUPTED"
            THEN Return(6, w) /\ UNCHANGED retry
            ELSE pc' = "home_for" /\ retry' = retry + 1 /\ UNCHANGED <<result, stepResult>>

\* ---- waitHomingDone ----
WhdEnter ==
    /\ pc = "whd_enter"
    /\ now' = 0
    /\ deadline' = config.home_timeout
    /\ pc' = "whd_head"
    /\ UNCHANGED <<result, stepResult, g_shutdown_requested, config, checkVars, enableVars,
                   homeVars, issued, sigAt, linkUpSeen>>
    /\ UNCHANGED <<fw_version, enable_ack, sigRepeated, deviceIdeal>>

WhdHead ==
    /\ pc = "whd_head"
    /\ IF DeadlineOpen(now, deadline)
       THEN IF g_shutdown_requested
            THEN AfterWait("SIGNAL_INTERRUPTED")
            ELSE pc' = "whd_poll" /\ UNCHANGED <<result, stepResult, retry, wait_result>>
       ELSE AfterWait("HOME_TIMEOUT")
    /\ UNCHANGED <<g_shutdown_requested, config, clock, checkVars, enableVars, home_status,
                   nModeSet, nMove, armErrSeen, issued, sigAt, linkUpSeen>>
    /\ UNCHANGED <<fw_version, enable_ack, sigRepeated, deviceIdeal>>

WhdPoll ==
    /\ pc = "whd_poll"
    /\ Call(6, "get_arm_status")
    /\ \E st \in HomeStatuses :
         /\ home_status' = st
         /\ armErrSeen' = (armErrSeen \/ (st.present /\ st.error_code # 0))
         /\ deviceIdeal' = (deviceIdeal /\ st.present /\ st.error_code = 0
                                /\ st.position = config.target_joints)
         /\ IF st.present
            THEN IF st.error_code # 0
                 THEN AfterWait("ARM_ERROR")
                 ELSE IF AllAtTarget(st.position, config.target_joints)
                      THEN AfterWait("OK")
                      ELSE pc' = "whd_sleep" /\ UNCHANGED <<result, stepResult, retry, wait_result>>
            ELSE pc' = "whd_sleep" /\ UNCHANGED <<result, stepResult, retry, wait_result>>
    /\ UNCHANGED <<g_shutdown_requested, config, clock, checkVars, enableVars, nModeSet, nMove,
                   sigAt, linkUpSeen>>
    /\ UNCHANGED <<fw_version, enable_ack, sigRepeated>>

WhdSleep ==
    /\ pc = "whd_sleep"
    /\ \E j \in 0..MaxJitter : now' = now + config.status_poll_interval + j
    /\ pc' = "whd_head"
    /\ home_status' = NoStatus
    /\ UNCHANGED <<result, stepResult, g_shutdown_requested, config, deadline, checkVars,
                   enableVars, retry, wait_result, nModeSet, nMove, armErrSeen, issued, sigAt,
                   linkUpSeen>>
    /\ UNCHANGED <<fw_version, enable_ack, sigRepeated, deviceIdeal>>

Next ==
    \/ SignalHandler
    \/ CreateInterface
    \/ ConnectPort
    \/ WfcEnter
    \/ WfcHead
    \/ WfcPoll
    \/ WfcSleep
    \/ CheckArmStatus
    \/ CheckReset
    \/ CheckRefetch
    \/ EnableMotors
    \/ EnFastHead
    \/ EnFastSleep
    \/ EnLongEnter
    \/ EnLongHead
    \/ EnLongPoll
    \/ EnLongSleep
    \/ HomeFor
    \/ HomeBackoff
    \/ HomeMode
    \/ HomeSettle
    \/ HomeMove
    \/ WhdEnter
    \/ WhdHead
    \/ WhdPoll
    \/ WhdSleep

Spec == Init /\ [][Next]_vars

\* the steps of the thread that executes run(): everything but the handler
Thread ==
    \/ CreateInterface \/ ConnectPort
    \/ WfcEnter \/ WfcHead \/ WfcPoll \/ WfcSleep
    \/ CheckArmStatus \/ CheckReset \/ CheckRefetch
    \/ EnableMotors \/ EnFastHead \/ EnFastSleep
    \/ EnLongEnter \/ EnLongHead \/ EnLongPoll \/ EnLongSleep
    \/ HomeFor \/ HomeBackoff \/ HomeMode \/ HomeSettle \/ HomeMove
    \/ WhdEnter \/ WhdHead \/ WhdPoll \/ WhdSleep

\* the thread keeps running: every device call returns, every sleep ends
\* and the clock advances
FairSpec == Spec /\ WF_vars(Thread)

TypeOK ==
    /\ result \in InitErrors \cup {"none"}
    /\ g_shutdown_requested \in BOOLEAN
    /\ config \in Configs
    /\ retry_count \in 0..MAX_RETRIES
    /\ retry \in 0..config.home_retry_count
    /\ wait_result \in InitErrors \cup {"none"}
    /\ stepResult \in [Steps -> InitErrors \cup {"none"}]

\* ---- vocabulary of the properties ----
Returned == pc = "done"

\* the device commands that act on the arm
ArmCommands == {"reset_arm", "enable_arm", "enable_piper", "motion_control_2", "move_joint"}

CallsOfStep(k) == {c \in issued : c[1] = k}

\* positions inside the body of a poll loop: after the flag test of the
\* iteration, at the device poll or in the sleep
PollLoopBody ==
    {"wfc_poll", "wfc_sleep", "en_fast_sleep", "en_long_poll", "en_long_sleep",
     "whd_poll", "whd_sleep"}

\* positions where a wait loop evaluates its exit condition
LoopHeads == {"wfc_head", "en_fast_head", "en_long_head", "whd_head"}

EnableLongLoop == {"en_long_enter", "en_long_head", "en_long_poll", "en_long_sleep"}

HomeStep ==
    {"home_for", "home_backoff", "home_mode", "home_settle", "home_move",
     "whd_enter", "whd_head", "whd_poll", "whd_sleep"}

WithinTolerance(position, target) ==
    \A i \in 1..NumJoints : Abs(position[i] - target[i]) <= kPositionTolerance

\* C1: the six steps run in the order create, connect, await-link,
\* check-status, enable, home: a step has returned, or a device call of a
\* step has been made, only if every earlier step returned OK; and when a
\* step returns a failure, run() has returned that very outcome, no later
\* step has returned and no device call of a later step has been made.
C1_StepOrder ==
    /\ \A k \in Steps :
         stepResult[k] # "none" => \A j \in 1..(k - 1) : stepResult[j] = "OK"
    /\ \A c \in issued : \A j \in 1..(c[1] - 1) : stepResult[j] = "OK"
    /\ \A k \in Steps :
         stepResult[k] \notin {"none", "OK"} =>
            /\ Returned
            /\ result = stepResult[k]
            /\ \A j \in (k + 1)..6 : stepResult[j] = "none" /\ CallsOfStep(j) = {}
    /\ (Returned /\ result = "OK") => \A k \in Steps : stepResult[k] = "OK"

C1_Witness ==
    /\ Returned
    /\ result = "ARM_ERROR"
    /\ stepResult[4] = "ARM_ERROR"
    /\ CallsOfStep(4) # {}

\* C2: if the flag was first set while the thread was inside the body of a
\* poll loop, run() returns SIGNAL_INTERRUPTED (stated as the claim puts it;
\* the code does not satisfy it).
C2_Claim ==
    (Returned /\ sigAt \in PollLoopBody) => result = "SIGNAL_INTERRUPTED"

\* C3: whenever the flag is set when a wait loop evaluates its exit
\* condition, the step returns SIGNAL_INTERRUPTED in that very evaluation:
\* neither success nor a timeout, and no further poll by that loop (stated
\* as the claim puts it; the code does not satisfy it).
C3_Claim ==
    [][(g_shutdown_requested /\ pc \in LoopHeads) =>
          \/ pc' = pc
          \/ pc' = "done" /\ result' = "SIGNAL_INTERRUPTED"]_vars

\* C4: when performHoming returns HOME_FAILED with no arm error seen and
\* no cancellation, it has made exactly home_retry_count + 1 attempts, each
\* starting with a mode-set command (stated as the claim puts it; the code
\* does not satisfy it).
C4_Claim ==
    (Returned /\ stepResult[6] = "HOME_FAILED" /\ ~armErrSeen /\ ~g_shutdown_requested) =>
        nModeSet = config.home_retry_count + 1

\* C5: once a status poll of the convergence wait has reported
\* error_code # 0, run() has returned ARM_ERROR: nothing else happens after
\* that poll (stated as the claim puts it; the code does not satisfy it).
C5_Claim ==
    armErrSeen => (Returned /\ result = "ARM_ERROR")

\* C6: a poll of the convergence wait that reads a status with error_code 0
\* and six joint positions returns success when every joint is within
\* kPositionTolerance of its target, the difference kPositionTolerance
\* included, and is non-convergent (the wait sleeps and polls again) when
\* some joint is further away.
C6_Convergence ==
    (home_status.present /\ home_status.error_code = 0
        /\ Len(home_status.position) = NumJoints) =>
        IF WithinTolerance(home_status.position, config.target_joints)
        THEN Returned /\ result = "OK" /\ wait_result = "OK"
        ELSE pc = "whd_sleep" /\ result = "none" /\ wait_result # "OK"

C6_Witness ==
    /\ home_status.present
    /\ home_status.error_code = 0
    /\ Len(home_status.position) = NumJoints
    /\ \E i \in 1..NumJoints :
         Abs(home_status.position[i] - config.target_joints[i]) = kPositionTolerance
    /\ Returned
    /\ result = "OK"

\* C7: the long loop of enableMotors is entered exactly when the fast loop
\* used up its MAX_RETRIES iterations; it polls only while the time since
\* its entry is below enable_timeout; and when no poll ever confirmed and
\* no cancellation was requested, the step returns ENABLE_TIMEOUT, from the
\* long loop, with enable_timeout elapsed.
C7_EnableLongLoop ==
    /\ pc \in EnableLongLoop => retry_count = MAX_RETRIES
    /\ pc = "en_fast_sleep" => retry_count < MAX_RETRIES
    /\ pc \in {"en_long_head", "en_long_poll", "en_long_sleep"} =>
          deadline = config.enable_timeout
    /\ pc = "en_long_poll" => now < config.enable_timeout
    /\ (stepResult[5] # "none" /\ ~enableConfirmed /\ ~g_shutdown_requested) =>
          /\ stepResult[5] = "ENABLE_TIMEOUT"
          /\ Returned
          /\ result = "ENABLE_TIMEOUT"
          /\ retry_count = MAX_RETRIES
          /\ now >= config.enable_timeout

C7_Witness ==
    /\ Returned
    /\ result = "ENABLE_TIMEOUT"
    /\ ~enableConfirmed
    /\ ~g_shutdown_requested
    /\ config.enable_timeout = MaxTimeout
    /\ retry_count = MAX_RETRIES

\* C8: in the Home step, once the flag is set no further mode-set or
\* move-to-target command is issued (stated as the claim puts it; the code
\* does not satisfy it).
C8_Claim ==
    [][(g_shutdown_requested /\ pc \in HomeStep) =>
          (nModeSet' = nModeSet /\ nMove' = nMove)]_vars

\* C9: as long as no link poll has reported connected and not stale, no
\* reset, enable, mode-set or move command has been issued; and when run()
\* returns after the connect step succeeded, with no such poll and no
\* cancellation, it returns CONNECT_FAILED from the await-link step, with
\* connect_timeout elapsed.
C9_NeverConnected ==
    /\ ~linkUpSeen =>
          /\ {c \in issued : c[2] \in ArmCommands} = {}
          /\ nReset = 0 /\ nModeSet = 0 /\ nMove = 0
    /\ (Returned /\ stepResult[2] = "OK" /\ ~linkUpSeen /\ ~g_shutdown_requested) =>
          /\ result = "CONNECT_FAILED"
          /\ stepResult[3] = "CONNECT_FAILED"
          /\ now >= config.connect_timeout

C9_Witness ==
    /\ Returned
    /\ result = "CONNECT_FAILED"
    /\ stepResult[3] = "CONNECT_FAILED"
    /\ ~linkUpSeen
    /\ ~g_shutdown_requested
    /\ <<3, "get_connect_status">> \in issued
    /\ config.connect_timeout = MaxTimeout

\* C10: when the first status read of checkArmStatus and the re-fetch after
\* the reset both report error_code # 0, run() returns ARM_ERROR from the
\* status-check step, with exactly one reset command and no device call of
\* the enable step.
C10_PersistentArmError ==
    (first_status.present /\ first_status.error_code # 0
        /\ refetch_status.present /\ refetch_status.error_code # 0) =>
        /\ Returned
        /\ result = "ARM_ERROR"
        /\ stepResult[4] = "ARM_ERROR"
        /\ nReset = 1
        /\ CallsOfStep(5) = {}
        /\ CallsOfStep(6) = {}

C10_Witness ==
    /\ first_status.present /\ first_status.error_code = 3
    /\ refetch_status.present /\ refetch_status.error_code = 3
    /\ result = "ARM_ERROR"
\* the defaults of Config that the run with an ideal device depends on:
\* home_retry_count{2} and three timeouts that have not elapsed when their
\* loop is entered; target_joints as main() sets it
DefaultLike(cfg) ==
    /\ cfg.connect_timeout > 0
    /\ cfg.enable_timeout > 0
    /\ cfg.home_timeout > 0
    /\ cfg.home_retry_count = 2
    /\ cfg.target_joints = TargetJoints

\* positions the thread reaches only after an unfavourable answer
Detours ==
    {"wfc_sleep", "check_reset", "check_refetch", "en_fast_sleep", "en_long_enter",
     "en_long_head", "en_long_poll", "en_long_sleep", "home_backoff", "whd_sleep", "aborted"}

\* C11: with the default retry count and timeouts and main()'s target, a
\* device that connects at the first link poll, reports error_code 0,
\* confirms enable at the first poll, accepts the mode-set and the move and
\* reports the target position at the first status poll makes run(), with
\* no cancellation, go straight through and return OK (exit code 0) after
\* exactly one homing attempt.
C11_HappyPath ==
    (deviceIdeal /\ ~g_shutdown_requested /\ DefaultLike(config)) =>
        /\ pc \notin Detours
        /\ retry = 0
        /\ nReset = 0
        /\ Returned =>
              /\ result = "OK"
              /\ ExitCode(result) = 0
              /\ nModeSet = 1
              /\ nMove = 1
              /\ home_status.position = TargetJoints

C11_Witness ==
    /\ Returned
    /\ deviceIdeal
    /\ ~g_shutdown_requested
    /\ DefaultLike(config)
    /\ result = "OK"
    /\ nModeSet = 1
\* everything but the record of repeated delivery
programState ==
    <<pc, result, g_shutdown_requested, config, now, deadline, retry_count, retry,
      wait_result, first_status, refetch_status, home_status, issued, nReset,
      nModeSet, nMove, stepResult, sigAt, linkUpSeen, enableConfirmed, armErrSeen,
      fw_version, enable_ack, deviceIdeal>>

\* the step about to be taken by the thread reads the flag (lines 228, 307,
\* 321, 346, 400); in the fast enable loop that depends on the poll's answer
FlagIsRead ==
    \/ pc \in {"wfc_head", "en_long_head", "whd_head"} /\ now < deadline
    \/ pc = "en_fast_head" /\ ~enableConfirmed' /\ retry_count < MAX_RETRIES
    \/ pc = "home_for" /\ retry < config.home_retry_count

\* C12: the flag, once set, is never reset; a shutdown request delivered
\* when the flag is already set leaves the whole state of the run as it
\* was, so what follows is what follows a single request; and a step of the
\* thread that reads the flag when it is set returns SIGNAL_INTERRUPTED.
C12_ShutdownIdempotent ==
    /\ [][g_shutdown_requested => g_shutdown_requested']_vars
    /\ [][(g_shutdown_requested /\ SignalHandler) => UNCHANGED programState]_vars
    /\ [][(g_shutdown_requested /\ pc' # pc /\ FlagIsRead) =>
             (pc' = "done" /\ result' = "SIGNAL_INTERRUPTED")]_vars

C12_Witness ==
    /\ sigRepeated
    /\ Returned
    /\ result = "SIGNAL_INTERRUPTED"
\* C13: under FairSpec every run of run() eventually returns (stated as the
\* claim puts it; the code does not satisfy it).
C13_Claim == <>(pc = "done")
\* C14: the convergence wait returns success only on a status whose
\* position vector has all NumJoints elements, each within the tolerance of
\* its target (stated as the claim puts it; the code does not satisfy it).
C14_Claim ==
    wait_result = "OK" =>
        /\ Len(home_status.position) = NumJoints
        /\ WithinTolerance(home_status.position, config.target_joints)

\* C15: when the first read of checkArmStatus reports error_code # 0 and
\* the re-fetch after the reset is unavailable or reports error_code 0, the
\* step returns OK and run() goes on to enableMotors; the step never ends
\* in another way than OK or ARM_ERROR (stated as the claim puts it; the
\* code does not satisfy it).
C15_Claim ==
    /\ pc # "aborted"
    /\ stepResult[4] \in {"none", "OK", "ARM_ERROR"}
    /\ (first_status.present /\ first_status.error_code # 0
         /\ pc \notin {"check_reset", "check_refetch"}
         /\ ~(refetch_status.present /\ refetch_status.error_code # 0)) =>
          (pc = "enable" /\ stepResult[4] = "OK")
\* C16: a convergence wait that ran out of home_timeout counts as one
\* failed attempt: performHoming is back at the head of its loop with the
\* attempt counted, starts a new attempt (after the backoff) when attempts
\* remain and no cancellation is requested, and returns HOME_FAILED when
\* they are used up; neither the Home step nor run() ever returns
\* HOME_TIMEOUT.
C16_TimeoutRetried ==
    /\ [](/\ result # "HOME_TIMEOUT"
          /\ stepResult[6] # "HOME_TIMEOUT"
          /\ wait_result = "HOME_TIMEOUT" =>
                /\ retry = nModeSet
                /\ retry >= 1
                /\ pc = "home_for" \/ Returned
                /\ Returned => result \in {"HOME_FAILED", "SIGNAL_INTERRUPTED"}
                /\ (Returned /\ ~g_shutdown_requested) =>
                      (result = "HOME_FAILED" /\ retry = config.home_retry_count))
    /\ [][(pc = "home_for" /\ wait_result = "HOME_TIMEOUT" /\ pc' # pc
             /\ retry < config.home_retry_count /\ ~g_shutdown_requested) =>
             pc' = "home_backoff"]_vars

C16_Witness ==
    /\ Returned
    /\ result = "HOME_FAILED"
    /\ wait_result = "HOME_TIMEOUT"
    /\ ~g_shutdown_requested
    /\ retry = 2
    /\ config.home_timeout > 0
WaitHoming == {"whd_enter", "whd_head", "whd_poll", "whd_sleep"}

\* C17: in every homing attempt the mode-set comes first, the move is
\* issued only after an accepted mode-set and the convergence wait is
\* entered only after an accepted move; a failed mode-set or move sends
\* the thread back to the head of the loop with the attempt counted and
\* nothing else issued; an attempt after the first passes through the 1 s
\* backoff and the first attempt does not.
C17_AttemptAbort ==
    /\ [](/\ nMove <= nModeSet
          /\ pc \in {"home_for", "home_backoff", "home_mode"} => nModeSet = retry
          /\ pc = "home_backoff" => retry > 0
          /\ pc \in {"home_settle", "home_move"} => (nModeSet = retry + 1 /\ nMove <= retry)
          /\ pc \in WaitHoming => (nModeSet = retry + 1 /\ nMove >= 1))
    /\ [][(pc = "home_mode" /\ pc' # pc) =>
             \/ pc' = "home_settle" /\ nMove' = nMove
             \/ pc' = "home_for" /\ nMove' = nMove /\ retry' = retry + 1]_vars
    /\ [][(pc = "home_move" /\ pc' # pc) =>
             \/ pc' = "whd_enter" /\ nMove' = nMove + 1
             \/ pc' = "home_for" /\ retry' = retry + 1 /\ issued' \ issued \subseteq {<<6, "move_joint">>}]_vars
    /\ [][(pc' = "home_move" /\ pc' # pc) => pc = "home_settle"]_vars
    /\ [][(pc' \in WaitHoming /\ pc \notin WaitHoming) => pc = "home_move"]_vars
    /\ [][(pc' = "home_mode" /\ pc' # pc) =>
             IF retry = 0 THEN pc = "home_for" ELSE pc = "home_backoff"]_vars

C17_Witness ==
    /\ pc = "home_mode"
    /\ retry = 1
    /\ nModeSet = 1
    /\ nMove = 0
\* C18: the three locally recovered conditions produce no failure outcome:
\* with the firmware version unavailable waitForConnection still returns
\* OK and checkArmStatus is next; with the first arm-status read
\* unavailable checkArmStatus returns OK, with no reset, and enableMotors
\* is next; with the enable command not acknowledged the thread is at the
\* first enable-confirmation poll.  ENABLE_FAILED and STATUS_CHECK_FAILED
\* are never returned.
C18_LocalRecovery ==
    /\ result \notin {"ENABLE_FAILED", "STATUS_CHECK_FAILED"}
    /\ fw_version = "absent" =>
          /\ stepResult[3] = "OK"
          /\ pc = "check" \/ <<4, "get_arm_status">> \in issued
    /\ (stepResult[3] = "OK" /\ pc \notin {"check", "check_reset"} /\ nReset = 0) =>
          /\ stepResult[4] = "OK"
          /\ pc = "enable" => result = "none"
    /\ enable_ack = "failed" =>
          (pc = "en_fast_head" /\ result = "none" /\ retry_count = 0)

C18_Witness ==
    /\ pc = "enable"
    /\ fw_version = "absent"
    /\ ~first_status.present
    /\ nReset = 0
    /\ result = "none"
\* C19: once an enable-confirmation poll has returned confirmed, and no
\* cancellation has been requested, enableMotors has returned OK: it is
\* not in its deadline loop waiting for a further confirmation and it has
\* not returned ENABLE_TIMEOUT.
C19_Claim ==
    (enableConfirmed /\ ~g_shutdown_requested) =>
        /\ pc \notin EnableLongLoop
        /\ stepResult[5] = "OK"
\* the joints the scan of lines 414-423 compares: the indices present in
\* both the reported position and the target
ComparedJoints(position, target) ==
    {i \in 1..NumJoints : i <= Len(position) /\ i <= Len(target)}

\* C20: run() has returned OK only if a link poll saw connected and not
\* stale, then an enable poll returned confirmed, then a mode-set and after
\* it a move-to-target were acknowledged, and then a status snapshot had
\* error_code 0 with every compared joint within 1000 of its target.  The
\* order is kept at every state: enable is confirmed only after the link
\* was seen up, a homing command is issued only after enable was
\* confirmed, the move follows an acknowledged mode-set, the convergence
\* wait follows an acknowledged move, and OK is returned from the status
\* poll alone.
C20_SuccessEvidence ==
    /\ [](/\ result = "OK" =>
               /\ linkUpSeen /\ enableConfirmed
               /\ nModeSet >= 1 /\ nMove >= 1
               /\ wait_result = "OK"
               /\ home_status.present /\ home_status.error_code = 0
               /\ \A i \in ComparedJoints(home_status.position, config.target_joints) :
                     Abs(home_status.position[i] - config.target_joints[i])
                        <= kPositionTolerance
          /\ enableConfirmed => linkUpSeen
          /\ (nModeSet > 0 \/ nMove > 0 \/ <<6, "move_joint">> \in issued
                \/ <<6, "motion_control_2">> \in issued) => enableConfirmed
          /\ nMove <= nModeSet
          /\ <<6, "move_joint">> \in issued <=> nMove > 0
          /\ home_status.present => nMove > 0
          /\ pc \in {"home_settle", "home_move"} => nModeSet > nMove
          /\ pc \in WaitHoming => nMove >= 1)
    /\ [][(pc' = "home_settle" /\ pc # "home_settle") =>
             (pc = "home_mode" /\ nModeSet' = nModeSet + 1)]_vars
    /\ [][(pc' = "home_move" /\ pc # "home_move") => pc = "home_settle"]_vars
    /\ [][(pc' = "whd_enter" /\ pc # "whd_enter") =>
             (pc = "home_move" /\ nMove' = nMove + 1)]_vars
    /\ [][(result' = "OK" /\ result # "OK") =>
             (pc = "whd_poll" /\ home_status'.present)]_vars

C20_Witness ==
    /\ Returned /\ result = "OK"
    /\ linkUpSeen /\ enableConfirmed
    /\ nModeSet = 2 /\ nMove = 1
    /\ home_status.position = <<-89000, 0, 0, 0, 0, 0>>
====
